---- MODULE Spec2Model ----
(***************************************************************************)
(* Socket.IO presence registry and call-signaling handlers of the chat     *)
(* server (socketHandler.js, the synthesized-callId implementation).       *)
(*                                                                         *)
(* Node runs every handler on one event loop: a handler runs without       *)
(* interruption up to its next `await db.query(...)`, where it is          *)
(* suspended, and other handlers run before it resumes.  Each handler is   *)
(* therefore one action per segment between awaits; a suspended handler    *)
(* is a record in `tasks` holding the locals it captured.                  *)
(***************************************************************************)
EXTENDS Bags, FiniteSets, Integers, Sequences, TLC

\* ------------------------------------------------------------------ bounds
Users == {"A", "B", "C"}
\* the users a call is addressed to in the call scenarios
Callees == {"A", "B"}
NumSockets == 3
Sockets == 1..NumSockets
MaxClock == 1
TickMs == 1000
Times == {i * TickMs : i \in 0..MaxClock}
CallTypes == {"voice", "video"}
Sdps == {"X"}
MaxTasks == 2
MaxSessions == 1
MaxEvents == 4

\* handshake.auth.token: a verifiable token per user, a missing one, a forged one
NoToken == "missing"
BadToken == "forged"
Tokens == Users \cup {NoToken, BadToken}
\* the tokens each connection may present in the call scenarios: two
\* connections of A (one of which may come with a forged token), one of B
Handshake(s) == IF s = 1 THEN {"A"}
                ELSE IF s = 2 THEN {"A", BadToken}
                ELSE {"B", NoToken}
\* and in the chat scenarios: one connection each of A and B, one of A or C
ChatHandshake(s) == IF s = 1 THEN {"A"}
                    ELSE IF s = 2 THEN {"A", "C"}
                    ELSE {"B"}

\* callSession.answeredAt before answer_call has set it (undefined in the source)
NoTime == 0 - 1

\* `${callerId}_${receiverId}_${Date.now()}`
MkCallId(callerId, receiverId, t) == <<callerId, receiverId, t>>
CallIds == {MkCallId(c, r, t) : c \in Callees, r \in Callees, t \in Times}

VARIABLES
    sockets,             \* socket id -> [status, userId, registered]: the transport's
                         \* connection state, socket.userId, and whether the
                         \* connection has sent user_connected
    activeUsers,         \* Map userId -> socket
    activeCallSessions,  \* Map callId -> call session object
    users_online,        \* users.is_online column of the database
    inserted,            \* rows the step just taken INSERTed INTO call_logs, in order
    message_seq,         \* number of rows in the messages table (the last messages.id)
    tasks,               \* bag of handlers suspended at an await
    now,                 \* the reading of Date.now() / new Date()
    dispatched,          \* number of inbound events dispatched to handlers so far
    out                  \* emit calls made by the step just taken, in order

vars == <<sockets, activeUsers, activeCallSessions, users_online, inserted,
          message_seq, tasks, now, dispatched, out>>

\* ----------------------------------------------------------------- helpers
MapSet(m, k, v) == (k :> v) @@ m
MapDelete(m, k) == [x \in DOMAIN m \ {k} |-> m[x]]
MapHas(m, k) == k \in DOMAIN m

\* socket.emit(ev, data) on socket s; io.emit(ev, data) reaches every socket
Emit(s, ev, data) == [to |-> s, ev |-> ev, data |-> data]
Broadcast == 0
IoEmit(ev, data) == [to |-> Broadcast, ev |-> ev, data |-> data]

IsOpen(s) == sockets[s].status = "open"
UserOf(s) == sockets[s].userId

\* an event of the open socket s is dispatched to the handler registered with
\* socket.on; at most MaxEvents events are dispatched in a run
Dispatch(s) ==
    /\ IsOpen(s)
    /\ dispatched < MaxEvents
    /\ dispatched' = dispatched + 1

TasksOf(handler) ==
    BagCardinality([t \in {x \in DOMAIN tasks : x.handler = handler} |-> tasks[t]])
Suspend(t) == tasks (+) SetToBag({t})
Resume(t) == tasks (-) SetToBag({t})
CanSuspend == BagCardinality(tasks) < MaxTasks
\* callIds in the table or about to be stored by a suspended initiate_call
LiveCallIds ==
    DOMAIN activeCallSessions
      \cup {t.callId : t \in {x \in DOMAIN tasks : x.handler = "initiate_call"}}

Init ==
    /\ sockets = [s \in Sockets |-> [status |-> "idle", userId |-> "nobody", registered |-> FALSE]]
    /\ activeUsers = << >>
    /\ activeCallSessions = << >>
    /\ users_online = [u \in Users |-> FALSE]
    /\ inserted = << >>
    /\ message_seq = 0
    /\ tasks = EmptyBag
    /\ now = 0
    /\ dispatched = 0
    /\ out = << >>

\* outcomes of `SELECT id, name FROM users WHERE id = $1`: a row, no row, a throw
SelectOutcomes == {"row", "norow", "throw"}
\* outcomes of an INSERT or UPDATE
WriteOutcomes == {"ok", "throw"}

\* ----------------------------------------------------------- admission
\* a verification that accepts any token that is present
JwtVerifiesAnyToken(token) == token # NoToken

\* jwt.verify(token, JWT_SECRET): the userId the token was signed for, or a throw
JwtVerifies(token) == token \in Users

\* io.use(async (socket, next) => ...) followed by io.on('connection')
Connect(s, token) ==
    /\ sockets[s].status = "idle"
    /\ IF token = NoToken \/ ~JwtVerifies(token)
         THEN sockets' = [sockets EXCEPT ![s].status = "rejected"]
         ELSE sockets' = [sockets EXCEPT ![s].status = "open", ![s].userId = token]
    /\ out' = << >>
    /\ inserted' = << >>
    /\ UNCHANGED <<activeUsers, activeCallSessions, users_online, tasks, now, dispatched,
                   message_seq>>

\* socket.on('user_connected'), up to `await db.query('UPDATE users SET is_online = true ...')`
UserConnected(s) ==
    /\ Dispatch(s)
    /\ CanSuspend
    /\ activeUsers' = MapSet(activeUsers, UserOf(s), s)
    /\ sockets' = [sockets EXCEPT ![s].registered = TRUE]
    /\ tasks' = Suspend([handler |-> "user_connected", s |-> s, userId |-> UserOf(s)])
    /\ out' = << >>
    /\ inserted' = << >>
    /\ UNCHANGED <<activeCallSessions, users_online, now, message_seq>>

\* socket.on('user_connected'), after the await; db \in {"ok", "throw"}
UserConnectedResume(t, db) ==
    /\ t \in DOMAIN tasks /\ t.handler = "user_connected"
    /\ tasks' = Resume(t)
    /\ IF db = "ok"
         THEN /\ users_online' = [users_online EXCEPT ![t.userId] = TRUE]
              /\ out' = << IoEmit("user_status_changed",
                                  [userId |-> t.userId, status |-> "online"]),
                           Emit(t.s, "connection_confirmed", [userId |-> t.userId]) >>
         ELSE /\ out' = << >>
              /\ UNCHANGED users_online
    /\ inserted' = << >>
    /\ UNCHANGED <<sockets, activeUsers, activeCallSessions, now, dispatched, message_seq>>

\* ------------------------------------------------------------- chat events
Conversations == {1}
\* data.messageType as sent by the client; "undefined" when the field is absent
MessageTypes == {"undefined", "image"}
\* messageType || 'text'
EffectiveType(messageType) == IF messageType = "undefined" THEN "text" ELSE messageType

\* the rows `SELECT DISTINCT cp.user_id ... WHERE ... cp.user_id != $2` can return
\* for a sender: the conversation's other participants, each once, in any order
ParticipantRows(senderId) ==
    LET others == Users \ {senderId}
    IN  {<< >>} \cup {<<u>> : u \in others}
          \cup {<<p[1], p[2]>> : p \in {q \in others \X others : q[1] # q[2]}}

\* socket.on('send_message'), up to `await db.query('INSERT INTO messages ...')`
SendMessage(s, conversationId, messageType) ==
    /\ Dispatch(s)
    /\ CanSuspend
    /\ tasks' = Suspend([handler |-> "send_message", s |-> s, senderId |-> UserOf(s),
                         conversationId |-> conversationId,
                         messageType |-> messageType])
    /\ out' = << >>
    /\ inserted' = << >>
    /\ UNCHANGED <<sockets, activeUsers, activeCallSessions, users_online, message_seq, now>>

\* a send_message that goes on to the participants lookup although its INSERT
\* threw
SendMessageInsertedUnchecked(t, db) ==
    /\ t \in DOMAIN tasks /\ t.handler = "send_message"
    /\ message_seq' = IF db = "throw" THEN message_seq ELSE message_seq + 1
    /\ tasks' = Resume(t) (+)
         SetToBag({[handler |-> "send_message_lookup", s |-> t.s,
                    senderId |-> t.senderId,
                    conversationId |-> t.conversationId,
                    messageType |-> t.messageType,
                    message |-> [id |-> message_seq + 1, created_at |-> now]]})
    /\ out' = << >>
    /\ inserted' = << >>
    /\ UNCHANGED <<sockets, activeUsers, activeCallSessions, users_online, now, dispatched>>
\* socket.on('send_message'), from the INSERT's return up to
\* `await db.query('SELECT DISTINCT cp.user_id ...')`
SendMessageInserted(t, db) ==
    /\ t \in DOMAIN tasks /\ t.handler = "send_message"
    /\ IF db = "throw"
         THEN /\ tasks' = Resume(t)
              /\ out' = << Emit(t.s, "error", [message |-> "Failed to send message"]) >>
              /\ UNCHANGED message_seq
         ELSE /\ message_seq' = message_seq + 1
              /\ tasks' = Resume(t) (+)
                   SetToBag({[handler |-> "send_message_lookup", s |-> t.s,
                              senderId |-> t.senderId,
                              conversationId |-> t.conversationId,
                              messageType |-> t.messageType,
                              message |-> [id |-> message_seq + 1, created_at |-> now]]})
              /\ out' = << >>
    /\ inserted' = << >>
    /\ UNCHANGED <<sockets, activeUsers, activeCallSessions, users_online, now, dispatched>>

\* the send_message handlers suspended at the participants SELECT
LookupTasks == {t \in DOMAIN tasks : t.handler = "send_message_lookup"}

\* socket.on('send_message') when the participants SELECT throws
SendMessageLookupThrows(t) ==
    /\ t \in DOMAIN tasks /\ t.handler = "send_message_lookup"
    /\ tasks' = Resume(t)
    /\ out' = << Emit(t.s, "error", [message |-> "Failed to send message"]) >>
    /\ inserted' = << >>
    /\ UNCHANGED <<sockets, activeUsers, activeCallSessions, users_online, message_seq,
                   now, dispatched>>

\* the new_message emit for the first row of the participants result
RelayToFirstRow(t, rows) ==
    IF Len(rows) > 0 /\ MapHas(activeUsers, rows[1])
      THEN << Emit(activeUsers[rows[1]], "new_message",
                   [conversationId |-> t.conversationId, messageId |-> t.message.id,
                    senderId |-> t.senderId,
                    messageType |-> EffectiveType(t.messageType),
                    created_at |-> t.message.created_at]) >>
      ELSE << >>

\* socket.on('send_message') after the participants SELECT returned rows
SendMessageRelay(t, rows) ==
    /\ t \in DOMAIN tasks /\ t.handler = "send_message_lookup"
    /\ tasks' = Resume(t)
    /\ out' = RelayToFirstRow(t, rows)
                \o << Emit(t.s, "message_sent",
                           [messageId |-> t.message.id,
                            created_at |-> t.message.created_at]) >>
    /\ inserted' = << >>
    /\ UNCHANGED <<sockets, activeUsers, activeCallSessions, users_online, message_seq,
                   now, dispatched>>

\* ------------------------------------------------------------- call events

\* the object stored by activeCallSessions.set(callId, {...}) in initiate_call
NewSession(callId, callerId, receiverId, callType) ==
    [callId |-> callId, callerId |-> callerId, receiverId |-> receiverId,
     callType |-> callType, status |-> "ringing", createdAt |-> now,
     sdp |-> "null", answeredAt |-> NoTime]

\* socket.on('initiate_call'), up to `await db.query('SELECT id, name FROM users ...')`
InitiateCall(s, receiverId, callType) ==
    /\ Dispatch(s)
    /\ CanSuspend
    /\ \/ MkCallId(UserOf(s), receiverId, now) \in LiveCallIds
       \/ Cardinality(LiveCallIds) < MaxSessions
    /\ tasks' = Suspend([handler |-> "initiate_call", s |-> s,
                         callId |-> MkCallId(UserOf(s), receiverId, now),
                         callerId |-> UserOf(s), receiverId |-> receiverId,
                         callType |-> callType])
    /\ out' = << >>
    /\ inserted' = << >>
    /\ UNCHANGED <<sockets, activeUsers, activeCallSessions, users_online, now, message_seq>>

\* socket.on('initiate_call'), after the await
InitiateCallResume(t, db) ==
    /\ t \in DOMAIN tasks /\ t.handler = "initiate_call"
    /\ tasks' = Resume(t)
    /\ IF db = "throw"
         THEN /\ out' = << Emit(t.s, "error", [message |-> "Failed to initiate call"]) >>
              /\ UNCHANGED activeCallSessions
         ELSE IF MapHas(activeUsers, t.receiverId)
           THEN \* the session is stored before `caller.name` is read; with no row
                \* `caller` is undefined and building the incoming_call payload throws
                /\ activeCallSessions' =
                     MapSet(activeCallSessions, t.callId,
                            NewSession(t.callId, t.callerId, t.receiverId, t.callType))
                /\ out' = IF db = "row"
                            THEN << Emit(activeUsers[t.receiverId], "incoming_call",
                                         [callId |-> t.callId, callerId |-> t.callerId,
                                          callType |-> t.callType]),
                                    Emit(t.s, "call_initiated",
                                         [callId |-> t.callId, receiverId |-> t.receiverId,
                                          callType |-> t.callType, status |-> "ringing"]) >>
                            ELSE << Emit(t.s, "error",
                                         [message |-> "Failed to initiate call"]) >>
           ELSE \* receiver is offline: set, emit call_error, delete
                /\ activeCallSessions' = MapDelete(activeCallSessions, t.callId)
                /\ out' = << Emit(t.s, "call_error",
                                  [message |-> "User is offline",
                                   receiverId |-> t.receiverId]) >>
    /\ inserted' = << >>
    /\ UNCHANGED <<sockets, activeUsers, users_online, now, dispatched, message_seq>>

\* socket.on('answer_call') when activeCallSessions.get(callId) is undefined
AnswerCallNotFound(s, callId) ==
    /\ Dispatch(s)
    /\ ~MapHas(activeCallSessions, callId)
    /\ out' = << Emit(s, "error", [message |-> "Call not found"]) >>
    /\ inserted' = << >>
    /\ UNCHANGED <<sockets, activeUsers, activeCallSessions, users_online,
                   tasks, now, message_seq>>

\* answer_call that records the sdp but leaves status and answeredAt alone
AnswerUpdateSdpOnly(callSession, sdp) ==
    [callSession EXCEPT !.sdp = sdp]

\* the three assignments to callSession in answer_call
AnswerUpdate(callSession, sdp) ==
    [callSession EXCEPT !.status = "active", !.sdp = sdp, !.answeredAt = now]

\* socket.on('answer_call'), up to `await db.query('SELECT id, name FROM users ...')`
AnswerCall(s, callId, sdp) ==
    /\ Dispatch(s)
    /\ CanSuspend
    /\ MapHas(activeCallSessions, callId)
    /\ activeCallSessions' =
         [activeCallSessions EXCEPT ![callId] = AnswerUpdate(@, sdp)]
    /\ tasks' = Suspend([handler |-> "answer_call", s |-> s, callId |-> callId,
                         receiverId |-> UserOf(s),
                         callerId |-> activeCallSessions[callId].callerId,
                         callType |-> activeCallSessions[callId].callType,
                         sdp |-> sdp])
    /\ out' = << >>
    /\ inserted' = << >>
    /\ UNCHANGED <<sockets, activeUsers, users_online, now, message_seq>>

\* socket.on('answer_call'), after the await
AnswerCallResume(t, db) ==
    /\ t \in DOMAIN tasks /\ t.handler = "answer_call"
    /\ tasks' = Resume(t)
    /\ out' = IF db = "throw"
                THEN << Emit(t.s, "error", [message |-> "Failed to answer call"]) >>
                ELSE IF MapHas(activeUsers, t.callerId)
                  THEN IF db = "row"
                         THEN << Emit(activeUsers[t.callerId], "call_answered",
                                      [callId |-> t.callId, receiverId |-> t.receiverId,
                                       sdp |-> t.sdp, callType |-> t.callType]),
                                 Emit(t.s, "call_connected",
                                      [callId |-> t.callId, status |-> "active"]) >>
                         \* `receiver.name` of an undefined row throws
                         ELSE << Emit(t.s, "error",
                                      [message |-> "Failed to answer call"]) >>
                  ELSE << Emit(t.s, "call_connected",
                               [callId |-> t.callId, status |-> "active"]) >>
    /\ inserted' = << >>
    /\ UNCHANGED <<sockets, activeUsers, activeCallSessions, users_online, now, dispatched,
                   message_seq>>

\* socket.on('reject_call'): no await, the whole handler is one step
RejectCall(s, callId) ==
    /\ Dispatch(s)
    /\ IF ~MapHas(activeCallSessions, callId)
         THEN /\ out' = << >>
              /\ UNCHANGED activeCallSessions
         ELSE /\ out' = IF MapHas(activeUsers, activeCallSessions[callId].callerId)
                          THEN << Emit(activeUsers[activeCallSessions[callId].callerId],
                                       "call_rejected",
                                       [callId |-> callId, reason |-> "rejected"]) >>
                          ELSE << >>
              /\ activeCallSessions' = MapDelete(activeCallSessions, callId)
    /\ inserted' = << >>
    /\ UNCHANGED <<sockets, activeUsers, users_online, tasks, now, message_seq>>

\* the counterpart chosen in end_call, ice_candidate and the disconnect scan
OtherUserId(callSession, userId) ==
    IF callSession.callerId = userId THEN callSession.receiverId
                                     ELSE callSession.callerId

\* data.candidate of ice_candidate
Candidates == {"candidate"}

\* socket.on('ice_candidate'): no await, the whole handler is one step
IceCandidate(s, callId, candidate) ==
    /\ Dispatch(s)
    /\ out' = IF ~MapHas(activeCallSessions, callId)
                THEN << >>
                ELSE LET targetUserId == OtherUserId(activeCallSessions[callId], UserOf(s))
                     IN  IF MapHas(activeUsers, targetUserId)
                           THEN << Emit(activeUsers[targetUserId], "ice_candidate",
                                        [callId |-> callId, candidate |-> candidate]) >>
                           ELSE << >>
    /\ inserted' = << >>
    /\ UNCHANGED <<sockets, activeUsers, activeCallSessions, users_online, tasks, now,
                   message_seq>>

\* Math.floor((new Date() - callSession.createdAt) / 1000)
Duration(callSession) == (now - callSession.createdAt) \div 1000

\* the call_status written by end_call
EndCallStatus(callSession) == "completed"

\* socket.on('end_call') when activeCallSessions.get(callId) is undefined
EndCallNotFound(s, callId) ==
    /\ Dispatch(s)
    /\ ~MapHas(activeCallSessions, callId)
    /\ out' = << >>
    /\ inserted' = << >>
    /\ UNCHANGED <<sockets, activeUsers, activeCallSessions, users_online,
                   tasks, now, message_seq>>

\* socket.on('end_call'), up to `await db.query('INSERT INTO call_logs ...')`
EndCall(s, callId) ==
    /\ Dispatch(s)
    /\ CanSuspend
    /\ MapHas(activeCallSessions, callId)
    /\ tasks' = Suspend([handler |-> "end_call", s |-> s, callId |-> callId,
                         otherUserId |-> OtherUserId(activeCallSessions[callId], UserOf(s)),
                         row |-> [caller_id |-> activeCallSessions[callId].callerId,
                                  receiver_id |-> activeCallSessions[callId].receiverId,
                                  call_type |-> activeCallSessions[callId].callType,
                                  call_status |-> EndCallStatus(activeCallSessions[callId]),
                                  duration |-> Duration(activeCallSessions[callId])]])
    /\ out' = << >>
    /\ inserted' = << >>
    /\ UNCHANGED <<sockets, activeUsers, activeCallSessions, users_online, now, message_seq>>

\* an end_call that notifies the caller's and the receiver's connection, each
\* if registered, instead of the counterpart's
EndCallResumeNotifyBoth(t, db) ==
    /\ t \in DOMAIN tasks /\ t.handler = "end_call"
    /\ tasks' = Resume(t)
    /\ IF db = "throw"
         THEN /\ out' = << >>
              /\ inserted' = << >>
              /\ UNCHANGED activeCallSessions
         ELSE /\ inserted' = << t.row >>
              /\ out' = (IF MapHas(activeUsers, t.row.caller_id)
                           THEN << Emit(activeUsers[t.row.caller_id], "call_ended",
                                        [callId |-> t.callId, reason |-> "ended_by_user",
                                         duration |-> t.row.duration]) >>
                           ELSE << >>)
                        \o (IF MapHas(activeUsers, t.row.receiver_id)
                              THEN << Emit(activeUsers[t.row.receiver_id], "call_ended",
                                           [callId |-> t.callId, reason |-> "ended_by_user",
                                            duration |-> t.row.duration]) >>
                              ELSE << >>)
              /\ activeCallSessions' = MapDelete(activeCallSessions, t.callId)
    /\ UNCHANGED <<sockets, activeUsers, users_online, now, dispatched, message_seq>>

\* socket.on('end_call'), after the await
EndCallResume(t, db) ==
    /\ t \in DOMAIN tasks /\ t.handler = "end_call"
    /\ tasks' = Resume(t)
    /\ IF db = "throw"
         THEN /\ out' = << >>
              /\ inserted' = << >>
              /\ UNCHANGED activeCallSessions
         ELSE /\ inserted' = << t.row >>
              /\ out' = IF MapHas(activeUsers, t.otherUserId)
                          THEN << Emit(activeUsers[t.otherUserId], "call_ended",
                                       [callId |-> t.callId, reason |-> "ended_by_user",
                                        duration |-> t.row.duration]) >>
                          ELSE << >>
              /\ activeCallSessions' = MapDelete(activeCallSessions, t.callId)
    /\ UNCHANGED <<sockets, activeUsers, users_online, now, dispatched, message_seq>>

\* ------------------------------------------------------------- disconnect
\* socket.on('disconnect'), up to `await db.query('UPDATE users SET is_online = false ...')`
Disconnect(s) ==
    /\ Dispatch(s)
    /\ CanSuspend
    /\ sockets' = [sockets EXCEPT ![s].status = "closed"]
    /\ activeUsers' = MapDelete(activeUsers, UserOf(s))
    /\ tasks' = Suspend([handler |-> "disconnect", s |-> s, userId |-> UserOf(s)])
    /\ out' = << >>
    /\ inserted' = << >>
    /\ UNCHANGED <<activeCallSessions, users_online, now, message_seq>>

\* the sessions the loop `for (const [callId, callSession] of activeCallSessions.entries())`
\* selects for userId
SessionsOf(userId) ==
    {k \in DOMAIN activeCallSessions :
        \/ activeCallSessions[k].callerId = userId
        \/ activeCallSessions[k].receiverId = userId}

\* the call_ended emits of the loop over the sessions in ks
RECURSIVE CleanupEmits(_, _)
CleanupEmits(ks, userId) ==
    IF ks = {} THEN << >>
    ELSE LET k == CHOOSE x \in ks : TRUE
             otherUserId == OtherUserId(activeCallSessions[k], userId)
         IN  (IF MapHas(activeUsers, otherUserId)
                THEN << Emit(activeUsers[otherUserId], "call_ended",
                             [callId |-> k, reason |-> "user_disconnected"]) >>
                ELSE << >>)
             \o CleanupEmits(ks \ {k}, userId)

\* socket.on('disconnect'), after the await
DisconnectResume(t, db) ==
    /\ t \in DOMAIN tasks /\ t.handler = "disconnect"
    /\ tasks' = Resume(t)
    /\ IF db = "throw"
         THEN /\ out' = << >>
              /\ UNCHANGED <<users_online, activeCallSessions>>
         ELSE /\ users_online' = [users_online EXCEPT ![t.userId] = FALSE]
              /\ out' = << IoEmit("user_status_changed",
                                  [userId |-> t.userId, status |-> "offline"]) >>
                        \o CleanupEmits(SessionsOf(t.userId), t.userId)
              /\ activeCallSessions' =
                   [k \in DOMAIN activeCallSessions \ SessionsOf(t.userId) |->
                        activeCallSessions[k]]
    /\ inserted' = << >>
    /\ UNCHANGED <<sockets, activeUsers, now, dispatched, message_seq>>

\* the clock read by Date.now() and new Date() advances between handler segments
Tick ==
    /\ now + TickMs \in Times
    /\ now' = now + TickMs
    /\ out' = << >>
    /\ inserted' = << >>
    /\ UNCHANGED <<sockets, activeUsers, activeCallSessions, users_online, tasks, dispatched,
                   message_seq>>

Next ==
    \/ \E s \in Sockets : \E token \in Handshake(s) : Connect(s, token)
    \/ \E s \in Sockets : UserConnected(s)
    \/ \E t \in DOMAIN tasks, db \in WriteOutcomes : UserConnectedResume(t, db)
    \/ \E s \in Sockets, receiverId \in Callees, callType \in CallTypes :
          InitiateCall(s, receiverId, callType)
    \/ \E t \in DOMAIN tasks, db \in SelectOutcomes : InitiateCallResume(t, db)
    \/ \E s \in Sockets, callId \in CallIds : AnswerCallNotFound(s, callId)
    \/ \E s \in Sockets, callId \in CallIds, sdp \in Sdps : AnswerCall(s, callId, sdp)
    \/ \E t \in DOMAIN tasks, db \in SelectOutcomes : AnswerCallResume(t, db)
    \/ \E s \in Sockets, callId \in CallIds : RejectCall(s, callId)
    \/ \E s \in Sockets, callId \in CallIds, candidate \in Candidates :
          IceCandidate(s, callId, candidate)
    \/ \E s \in Sockets, callId \in CallIds : EndCallNotFound(s, callId)
    \/ \E s \in Sockets, callId \in CallIds : EndCall(s, callId)
    \/ \E t \in DOMAIN tasks, db \in WriteOutcomes : EndCallResume(t, db)
    \/ \E s \in Sockets : Disconnect(s)
    \/ \E t \in DOMAIN tasks, db \in WriteOutcomes : DisconnectResume(t, db)
    \/ Tick

Spec == Init /\ [][Next]_vars

\* presence and chat events (send_message reads activeUsers only, which no call
\* event writes)
ChatNext ==
    \/ \E s \in Sockets : \E token \in ChatHandshake(s) : Connect(s, token)
    \/ \E s \in Sockets : UserConnected(s)
    \/ \E t \in DOMAIN tasks, db \in WriteOutcomes : UserConnectedResume(t, db)
    \/ \E s \in Sockets, conversationId \in Conversations, messageType \in MessageTypes :
          SendMessage(s, conversationId, messageType)
    \/ \E t \in DOMAIN tasks, db \in WriteOutcomes : SendMessageInserted(t, db)
    \/ \E t \in DOMAIN tasks : SendMessageLookupThrows(t)
    \/ \E t \in LookupTasks : \E rows \in ParticipantRows(t.senderId) :
          SendMessageRelay(t, rows)
    \/ \E s \in Sockets : Disconnect(s)
    \/ \E t \in DOMAIN tasks, db \in WriteOutcomes : DisconnectResume(t, db)
    \/ Tick

ChatSpec == Init /\ [][ChatNext]_vars

\* ------------------------------------------------------------------ claims
\* a session between two different users (the formulas below speak of such
\* sessions only, so that none of them fails through a self-addressed call)
TwoParty(callerId, receiverId) == callerId # receiverId
TwoPartySessionsOf(u) ==
    {k \in SessionsOf(u) :
        TwoParty(activeCallSessions[k].callerId, activeCallSessions[k].receiverId)}

\* does emit e carry event ev for call k
IsCallEvent(e, ev, k) == e.ev = ev /\ e.data.callId = k
\* the emits of event ev for call k made to socket s by the step just taken
EmitsTo(o, s, ev, k) == {i \in DOMAIN o : o[i].to = s /\ IsCallEvent(o[i], ev, k)}

\* C1: when the disconnect of a superseded connection is processed (the
\* connection had registered and the registry now holds another connection of
\* the same user), the registry entry of that user is left as it was.
StaleUnregisterIsNoOp ==
    [][\A s \in Sockets :
          (/\ Disconnect(s)
           /\ sockets[s].registered
           /\ MapHas(activeUsers, UserOf(s))
           /\ activeUsers[UserOf(s)] # s)
          => /\ MapHas(activeUsers', UserOf(s))
             /\ activeUsers'[UserOf(s)] = activeUsers[UserOf(s)]]_vars

\* user u had a connection, none is open now, and every disconnect handler of
\* u has returned
HasDisconnected(u) ==
    /\ \E s \in Sockets : sockets[s].status = "closed" /\ UserOf(s) = u
    /\ \A s \in Sockets : UserOf(s) = u => sockets[s].status # "open"
    /\ \A t \in DOMAIN tasks : ~(t.handler = "disconnect" /\ t.userId = u)

\* C2: once a user's connections are all closed and every disconnect handler of
\* that user has returned, no session in the table names the user as caller or
\* receiver, whatever other handlers were suspended meanwhile.
DisconnectCleanupExhaustive ==
    \A u \in Users : HasDisconnected(u) => TwoPartySessionsOf(u) = {}

\* C3: an end_call that performs its write right after another end_call of the
\* same callId has persisted the outcome and relayed call_ended (so the session
\* is already absent) persists nothing and relays nothing.
SecondEndCallIsNoOp ==
    [][\A t \in DOMAIN tasks :
          (/\ EndCallResume(t, "ok")
           /\ TwoParty(t.row.caller_id, t.row.receiver_id)
           /\ ~MapHas(activeCallSessions, t.callId)
           /\ Len(inserted) = 1
           /\ \E i \in DOMAIN out : /\ IsCallEvent(out[i], "call_ended", t.callId)
                                    /\ out[i].data.reason = "ended_by_user")
          => inserted' = << >> /\ out' = << >>]_vars

\* the step answers socket s with an error, leaves the table as it is and
\* suspends nothing that would later emit call_answered or call_connected
AnswerRejected(s) ==
    /\ UNCHANGED activeCallSessions
    /\ UNCHANGED tasks
    /\ Len(out') = 1 /\ out'[1].to = s /\ out'[1].ev = "error"

\* C4: answer_call for a callId that is absent or whose session is not ringing
\* emits an error to the invoking connection, leaves the session's state and
\* answeredAt as they are, and emits no call_answered or call_connected.
AnswerOnlyWhenRinging ==
    [][\A s \in Sockets, callId \in CallIds :
          /\ AnswerCallNotFound(s, callId) => AnswerRejected(s)
          /\ \A sdp \in Sdps :
               (AnswerCall(s, callId, sdp)
                /\ TwoParty(callId[1], callId[2])
                /\ activeCallSessions[callId].status # "ringing") => AnswerRejected(s)]_vars

\* C5: reject_call removes a ringing session and relays call_rejected to the
\* registered caller; on an active session it leaves the table unchanged and
\* relays nothing; on an absent session it changes nothing.
RejectOnlyWhenRinging ==
    [][\A s \in Sockets, callId \in CallIds :
          (RejectCall(s, callId) /\ TwoParty(callId[1], callId[2])) =>
            IF MapHas(activeCallSessions, callId)
                 /\ activeCallSessions[callId].status = "ringing"
              THEN /\ ~MapHas(activeCallSessions', callId)
                   /\ MapHas(activeUsers, activeCallSessions[callId].callerId)
                        => EmitsTo(out', activeUsers[activeCallSessions[callId].callerId],
                                   "call_rejected", callId) # {}
              ELSE /\ UNCHANGED activeCallSessions
                   /\ out' = << >>]_vars

\* C6: a session in the table never goes from active back to ringing, and
\* reject_call (the only way to REJECTED) removes only ringing sessions.
CallStateOrder ==
    [][/\ \A k \in DOMAIN activeCallSessions :
            (/\ TwoParty(k[1], k[2])
             /\ activeCallSessions[k].status = "active"
             /\ MapHas(activeCallSessions', k))
            => activeCallSessions'[k].status = "active"
       /\ \A s \in Sockets, k \in DOMAIN activeCallSessions :
            (RejectCall(s, k) /\ TwoParty(k[1], k[2]) /\ ~MapHas(activeCallSessions', k))
            => activeCallSessions[k].status = "ringing"]_vars

\* C7: when initiate_call finds no presence entry for the receiver, the caller
\* gets call_error, exactly one row (caller, receiver, callType) with status
\* missed is inserted, and the call's session is not in the table afterwards.
OfflineCallIsMissed ==
    [][\A t \in DOMAIN tasks, db \in SelectOutcomes \ {"throw"} :
          (/\ InitiateCallResume(t, db)
           /\ TwoParty(t.callerId, t.receiverId)
           /\ ~MapHas(activeUsers, t.receiverId))
          => /\ \E i \in DOMAIN out' : out'[i].to = t.s /\ out'[i].ev = "call_error"
             /\ ~MapHas(activeCallSessions', t.callId)
             /\ Len(inserted') = 1
             /\ inserted'[1].caller_id = t.callerId
             /\ inserted'[1].receiver_id = t.receiverId
             /\ inserted'[1].call_type = t.callType
             /\ inserted'[1].call_status = "missed"]_vars

\* the outcome row disconnect cleanup is to persist for a session
CleanupStatusOk(callSession, row) ==
    /\ row.caller_id = callSession.callerId
    /\ row.receiver_id = callSession.receiverId
    /\ IF callSession.status = "ringing"
         THEN row.call_status = "missed"
         ELSE /\ row.call_status \in {"ended", "completed"}
              /\ row.duration = (now - callSession.answeredAt) \div 1000

\* C8: the step of the disconnect handler that removes the user's sessions
\* inserts exactly one outcome row per removed session: missed for a ringing
\* one, ended/completed with the duration since answeredAt for an active one.
DisconnectPersistsOutcome ==
    [][\A t \in DOMAIN tasks :
          (DisconnectResume(t, "ok") /\ SessionsOf(t.userId) = TwoPartySessionsOf(t.userId))
          => /\ Len(inserted') = Cardinality(SessionsOf(t.userId))
             /\ \A k \in SessionsOf(t.userId) :
                  \E i \in DOMAIN inserted' :
                      CleanupStatusOk(activeCallSessions[k], inserted'[i])]_vars

\* when the disconnect handler of a user finishes, each session of that user
\* whose counterpart is another, registered user has produced exactly one
\* call_ended with the given reason on the counterpart's registered connection,
\* and none on the closed connection
PeerNotified(reason) ==
    \A t \in DOMAIN tasks, db \in WriteOutcomes :
          DisconnectResume(t, db)
          => \A k \in SessionsOf(t.userId) :
               LET otherUserId == OtherUserId(activeCallSessions[k], t.userId)
               IN  (otherUserId # t.userId /\ MapHas(activeUsers, otherUserId))
                   => /\ Cardinality(EmitsTo(out', activeUsers[otherUserId],
                                             "call_ended", k)) = 1
                      /\ \A i \in EmitsTo(out', activeUsers[otherUserId],
                                          "call_ended", k) :
                             out'[i].data.reason = reason
                      /\ \A i \in DOMAIN out' : out'[i].to # t.s

\* C9: when B's connection is torn down while a session between A and B is in
\* the table and A is registered, A's connection gets exactly one call_ended
\* for it with reason peer_disconnected and B's closed connection gets none.
PeerNotifiedOnDisconnect == [][PeerNotified("peer_disconnected")]_vars
\* the same with the reason string the handler uses
PeerNotifiedUserDisconnected == [][PeerNotified("user_disconnected")]_vars

\* C10: an end_call that persists the outcome of a session that is still
\* ringing (never answered) inserts a row with status missed; a row with
\* status ended/completed is inserted only for a session that reached active.
UnansweredEndIsMissed ==
    [][\A t \in DOMAIN tasks :
          (/\ EndCallResume(t, "ok")
           /\ TwoParty(t.row.caller_id, t.row.receiver_id)
           /\ MapHas(activeCallSessions, t.callId)
           /\ activeCallSessions[t.callId].status = "ringing"
           /\ activeCallSessions[t.callId].answeredAt = NoTime)
          => /\ Len(inserted') = 1
             /\ inserted'[1].call_status = "missed"]_vars

\* the end_call handlers suspended by the step just taken
NewEndCalls ==
    {t \in DOMAIN tasks' : t.handler = "end_call" /\ CopiesIn(t, tasks') > CopiesIn(t, tasks)}
\* max(0, floor((t1 - t0) / 1000))
ClampedSeconds(t0, t1) == IF t1 < t0 THEN 0 ELSE (t1 - t0) \div 1000

\* C11: the duration end_call computes for a session that reached active, and
\* then persists and relays, is max(0, floor((t1 - t0) / 1000)) with t0 the
\* session's answeredAt and t1 the time of the end_call.
DurationSinceAnswer ==
    [][\A s \in Sockets, k \in DOMAIN activeCallSessions :
          (/\ EndCall(s, k)
           /\ TwoParty(k[1], k[2])
           /\ activeCallSessions[k].status = "active")
          => \A t \in NewEndCalls :
               t.row.duration = ClampedSeconds(activeCallSessions[k].answeredAt, now)]_vars

\* the relay the answer_call handler of task t is to make when it resumes:
\* call_answered with the callId and sdp to the caller's registered connection,
\* call_connected to the answering connection
AnswerRelayed(t) ==
    /\ Cardinality(EmitsTo(out', activeUsers[t.callerId], "call_answered", t.callId)) = 1
    /\ \A i \in EmitsTo(out', activeUsers[t.callerId], "call_answered", t.callId) :
          out'[i].data.sdp = t.sdp
    /\ Cardinality(EmitsTo(out', t.s, "call_connected", t.callId)) = 1
\* answer_call on the ringing session k makes it active with answeredAt and sdp set
AnswerActivates ==
    \A s \in Sockets, k \in DOMAIN activeCallSessions, sdp \in Sdps :
        (AnswerCall(s, k, sdp) /\ activeCallSessions[k].status = "ringing")
        => /\ MapHas(activeCallSessions', k)
           /\ activeCallSessions'[k].status = "active"
           /\ activeCallSessions'[k].answeredAt = now
           /\ activeCallSessions'[k].sdp = sdp

EndCallPostcondition ==
    [][\A t \in DOMAIN tasks :
          (EndCallResume(t, "ok") /\ TwoParty(t.row.caller_id, t.row.receiver_id))
          => /\ ~MapHas(activeCallSessions', t.callId)
             /\ MapHas(activeUsers, t.otherUserId)
                  => EmitsTo(out', activeUsers[t.otherUserId], "call_ended", t.callId) # {}
             /\ \E i \in DOMAIN out' : out'[i].to = t.s]_vars

\* the emits of the step just taken to connection s with event ev
EventsTo(o, s, ev) == {i \in DOMAIN o : o[i].to = s /\ o[i].ev = ev}
\* the step just taken emitted a failure event to connection s
FailureReported(s) ==
    \E i \in DOMAIN out' : out'[i].to = s /\ out'[i].ev \in {"error", "call_error"}

\* C14: a send_message whose INSERT fails ends there, emitting neither
\* new_message nor message_sent; and every new_message or message_sent emitted
\* carries the id of a row the emitting handler has inserted into the messages
\* table.
NoRelayWithoutPersistence ==
    [][/\ \A t \in DOMAIN tasks :
            SendMessageInserted(t, "throw")
            => /\ tasks' = Resume(t)
               /\ \A i \in DOMAIN out' : out'[i].ev \notin {"new_message", "message_sent"}
       /\ \A t \in LookupTasks' : t.message.id \in 1..message_seq'
       /\ \A i \in DOMAIN out' :
            out'[i].ev \in {"new_message", "message_sent"}
            => \E t \in LookupTasks :
                  /\ tasks' = Resume(t)
                  /\ out'[i].data.messageId = t.message.id
                  /\ t.message.id \in 1..message_seq]_vars
\* a persisted message has just been relayed to a recipient and acknowledged
MessageRelayedReached ==
    /\ message_seq >= 1
    /\ \E i, j \in DOMAIN out :
          /\ out[i].ev = "new_message" /\ out[j].ev = "message_sent"
          /\ out[i].to # out[j].to
          /\ out[i].data.messageId = out[j].data.messageId

\* C15: a send_message whose message was persisted ends with exactly one
\* message_sent to the sender, carrying the message's id and timestamp,
\* whatever the participants lookup returns and also when it throws.
SenderAlwaysAcknowledged ==
    [][\A t \in LookupTasks :
          (\/ SendMessageLookupThrows(t)
           \/ \E rows \in ParticipantRows(t.senderId) : SendMessageRelay(t, rows))
          => /\ Cardinality(EventsTo(out', t.s, "message_sent")) = 1
             /\ \A i \in EventsTo(out', t.s, "message_sent") :
                   /\ out'[i].data.messageId = t.message.id
                   /\ out'[i].data.created_at = t.message.created_at]_vars

\* C16: when a persisted send_message relays, every participant other than the
\* sender that is registered gets new_message on its registered connection, and
\* no other connection gets one.
MessageFanOut ==
    [][\A t \in LookupTasks : \A rows \in ParticipantRows(t.senderId) :
          SendMessageRelay(t, rows)
          => /\ \A k \in DOMAIN rows :
                   MapHas(activeUsers, rows[k])
                   => EventsTo(out', activeUsers[rows[k]], "new_message") # {}
             /\ \A i \in DOMAIN out' :
                   out'[i].ev = "new_message"
                   => \E k \in DOMAIN rows :
                         /\ MapHas(activeUsers, rows[k])
                         /\ out'[i].to = activeUsers[rows[k]]]_vars

\* C18: when a database call of send_message, initiate_call, answer_call or
\* end_call throws, the handler emits a failure event to its own connection and
\* does not emit its acknowledgment (message_sent, call_initiated,
\* call_connected) to it.
PersistenceFailureReported ==
    [][\A t \in DOMAIN tasks :
          /\ (SendMessageInserted(t, "throw") \/ SendMessageLookupThrows(t))
                => FailureReported(t.s) /\ EventsTo(out', t.s, "message_sent") = {}
          /\ (InitiateCallResume(t, "throw") /\ TwoParty(t.callerId, t.receiverId))
                => FailureReported(t.s) /\ EventsTo(out', t.s, "call_initiated") = {}
          /\ (AnswerCallResume(t, "throw") /\ TwoParty(t.callId[1], t.callId[2]))
                => FailureReported(t.s) /\ EventsTo(out', t.s, "call_connected") = {}
          /\ (EndCallResume(t, "throw") /\ TwoParty(t.row.caller_id, t.row.receiver_id))
                => FailureReported(t.s) /\ EventsTo(out', t.s, "call_ended") = {}]_vars

\* the outbound events that carry a callId, and those that carry a messageId
CallEvents == {"incoming_call", "call_initiated", "call_answered", "call_connected",
               "call_rejected", "ice_candidate", "call_ended"}
MessageEvents == {"new_message", "message_sent"}
\* entries i and j of the emits o are about the same call or message
SameSubject(o, i, j) ==
    \/ /\ o[i].ev \in CallEvents /\ o[j].ev \in CallEvents
       /\ o[i].data.callId = o[j].data.callId
    \/ /\ o[i].ev \in MessageEvents /\ o[j].ev \in MessageEvents
       /\ o[i].data.messageId = o[j].data.messageId

\* C21: the emits of one handler run never hold the same event for the same
\* callId or messageId twice for one connection, self-addressed sessions
\* included.
AtMostOncePerEvent ==
    \A i, j \in DOMAIN out :
        (i # j /\ out[i].to = out[j].to /\ out[i].ev = out[j].ev)
        => ~SameSubject(out, i, j)
\* one handler run has emitted two events of a self-addressed session to the
\* same connection
SelfSessionEmitsReached ==
    \E i, j \in DOMAIN out :
        /\ i # j /\ out[i].to = out[j].to
        /\ SameSubject(out, i, j)
        /\ out[i].ev \in CallEvents
        /\ out[i].data.callId[1] = out[i].data.callId[2]

\* C22: an answer_call whose session has been removed from the table while the
\* handler was suspended (by end_call, reject_call or a disconnect cleanup)
\* emits neither call_answered nor call_connected when it resumes.
AnswerAtomicWithCleanup ==
    [][\A t \in DOMAIN tasks, db \in SelectOutcomes :
          (/\ AnswerCallResume(t, db)
           /\ TwoParty(t.callId[1], t.callId[2])
           /\ ~MapHas(activeCallSessions, t.callId))
          => \A i \in DOMAIN out' :
                out'[i].ev \notin {"call_answered", "call_connected"}]_vars

\* the counterpart of userId in a session: callerId if userId is the
\* receiverId, else receiverId
Counterpart(callSession, userId) ==
    IF callSession.receiverId = userId THEN callSession.callerId
                                       ELSE callSession.receiverId
\* what ice_candidate from connection s on call k is to emit: ice_candidate to
\* the counterpart's registered connection, if any
IceRelayed(s, k, candidate) ==
    LET other == Counterpart(activeCallSessions[k], UserOf(s))
    IN  IF MapHas(activeUsers, other)
          THEN /\ out' = << Emit(activeUsers[other], "ice_candidate",
                                 [callId |-> k, candidate |-> candidate]) >>
               /\ activeUsers[other] # s
          ELSE out' = << >>

\* C23: an ice_candidate leaves the registry and the session table unchanged;
\* for an absent session it emits nothing; sent by a participant of an existing
\* session it emits ice_candidate to the counterpart's registered connection
\* only, never to the sending connection, and nothing if the counterpart is
\* not registered.
IceRelayTargetsCounterpart ==
    [][\A s \in Sockets, k \in CallIds, candidate \in Candidates :
          IceCandidate(s, k, candidate)
          => /\ UNCHANGED <<activeUsers, activeCallSessions>>
             /\ ~MapHas(activeCallSessions, k) => out' = << >>
             /\ (/\ MapHas(activeCallSessions, k)
                 /\ UserOf(s) \in {activeCallSessions[k].callerId,
                                    activeCallSessions[k].receiverId})
                  => IceRelayed(s, k, candidate)]_vars

\* C24: every open connection (admitted with a valid token and not yet
\* disconnected) has an entry for its userId in the registry.
AdmittedMeansRegistered ==
    \A s \in Sockets : IsOpen(s) => MapHas(activeUsers, UserOf(s))

\* C25: answer_call and reject_call sent by a user other than the session's
\* receiverId, and end_call sent by a user that is neither its callerId nor its
\* receiverId, leave the session table unchanged and emit nothing.
OnlyParticipantsDrive ==
    [][/\ \A s \in Sockets, k \in DOMAIN activeCallSessions :
            TwoParty(k[1], k[2]) /\ UserOf(s) # activeCallSessions[k].receiverId
            => /\ \A sdp \in Sdps :
                     AnswerCall(s, k, sdp) => UNCHANGED activeCallSessions
               /\ RejectCall(s, k) => UNCHANGED activeCallSessions /\ out' = << >>
       /\ \A t \in DOMAIN tasks :
            (/\ EndCallResume(t, "ok")
             /\ TwoParty(t.row.caller_id, t.row.receiver_id)
             /\ UserOf(t.s) \notin {t.row.caller_id, t.row.receiver_id})
            => UNCHANGED activeCallSessions /\ out' = << >>]_vars

\* C26: an initiate_call between two users that leaves a ringing session for
\* its callId in the table has emitted incoming_call to the receiver's
\* registered connection and call_initiated to the caller's; one that reports
\* an error to the caller leaves no session for its callId.
SessionOnlyIfAnnounced ==
    [][\A t \in DOMAIN tasks, db \in SelectOutcomes :
          (/\ InitiateCallResume(t, db)
           /\ TwoParty(t.callerId, t.receiverId)
           /\ ~MapHas(activeCallSessions, t.callId))
          => /\ MapHas(activeCallSessions', t.callId)
                  => /\ activeCallSessions'[t.callId].status = "ringing"
                     /\ EmitsTo(out', activeUsers[t.receiverId], "incoming_call",
                                t.callId) # {}
                     /\ EmitsTo(out', t.s, "call_initiated", t.callId) # {}
             /\ EventsTo(out', t.s, "error") # {}
                  => ~MapHas(activeCallSessions', t.callId)]_vars

\* a handler of socket s starts in this step
HandlerStarts(s) ==
    \/ UserConnected(s)
    \/ \E receiverId \in Users, callType \in CallTypes : InitiateCall(s, receiverId, callType)
    \/ \E callId \in CallIds :
          \/ AnswerCallNotFound(s, callId)
          \/ \E sdp \in Sdps : AnswerCall(s, callId, sdp)
          \/ RejectCall(s, callId)
          \/ \E candidate \in Candidates : IceCandidate(s, callId, candidate)
          \/ EndCallNotFound(s, callId)
          \/ EndCall(s, callId)
    \/ \E conversationId \in Conversations, messageType \in MessageTypes :
          SendMessage(s, conversationId, messageType)
    \/ Disconnect(s)

\* C17: a connection attempt with a missing or invalid token is rejected and
\* leaves the registry, the session table, the persisted online flags and the
\* suspended handlers as they were; a rejected connection stays rejected, no
\* handler of it starts and none is suspended.
AdmissionAllOrNothing ==
    [][\A s \in Sockets :
          /\ \A token \in {NoToken, BadToken} :
                Connect(s, token)
                => /\ sockets'[s].status = "rejected"
                   /\ UNCHANGED <<activeUsers, activeCallSessions, users_online, tasks>>
                   /\ out' = << >>
          /\ sockets[s].status = "rejected"
                => /\ sockets'[s] = sockets[s]
                   /\ ~HandlerStarts(s)
                   /\ \A t \in DOMAIN tasks' : t.s # s
                   /\ \A u \in DOMAIN activeUsers' : activeUsers'[u] # s]_vars
\* a connection has been rejected while another one is registered and events
\* have been handled
RejectedReached ==
    /\ \E s \in Sockets : sockets[s].status = "rejected"
    /\ activeUsers # << >>
    /\ dispatched > 1

\* C19: an initiate_call whose receiverId is the caller's own userId leaves no
\* session for its callId in the table, emits no incoming_call and reports an
\* error to the caller.
SelfCallRejected ==
    [][\A t \in DOMAIN tasks, db \in SelectOutcomes :
          (InitiateCallResume(t, db) /\ t.callerId = t.receiverId)
          => /\ ~MapHas(activeCallSessions', t.callId)
             /\ \A i \in DOMAIN out' : out'[i].ev # "incoming_call"
             /\ \E i \in DOMAIN out' :
                   out'[i].to = t.s /\ out'[i].ev \in {"error", "call_error"}]_vars

\* C20: the callId initiate_call allocates is not that of a session in the
\* table, and the session it stores replaces none.
CallIdFresh ==
    [][/\ \A s \in Sockets, receiverId \in Users, callType \in CallTypes :
            (InitiateCall(s, receiverId, callType) /\ TwoParty(UserOf(s), receiverId))
            => ~MapHas(activeCallSessions, MkCallId(UserOf(s), receiverId, now))
       /\ \A t \in DOMAIN tasks, db \in SelectOutcomes \ {"throw"} :
            (InitiateCallResume(t, db) /\ TwoParty(t.callerId, t.receiverId))
            => ~MapHas(activeCallSessions, t.callId)]_vars

====
